---- MODULE Spec2Model ----
(***************************************************************************)
(* The interactive region editor of the thermal-image toolkit              *)
(* (ThermalImageEditor, undamaged_to_damaged_convertor.py): the image      *)
(* state (data, original_data), the polygon selection driven by mouse and  *)
(* keyboard events, the point-in-polygon mask and the masked fill; and the *)
(* batch pipeline of the same toolkit (ThermalImageProcessor,              *)
(* thermal_processor/core.py): load_csv, crop, downsample, visualize, save *)
(* and batch_process on one processor instance.                            *)
(*                                                                         *)
(* Numbers.  Temperatures and event coordinates are fixed-point: the       *)
(* integer u stands for the real number u / Scale.  A numpy array is a     *)
(* record [dtype, cells]; cells is a sequence of rows.  Row r, column c of *)
(* the model is data[r-1][c-1] of the program.  A selection point is the   *)
(* pair <<x, y>> of the program's [x, y].  The Python value None of a list *)
(* valued attribute is the empty sequence: the program tests these         *)
(* attributes by truthiness only (lines 140, 156, 167).                    *)
(***************************************************************************)
EXTENDS Integers, Sequences, FiniteSets, TLC

Scale == 2
MaxPoints == 4

MinPoints == 3
FillMin == 0
FillMax == 100

None == << >>
NoneArray == [dtype |-> "None", cells |-> << >>]
NoFile == << >>
TextCell == 0 - 1

(***************************************************************************)
(* Files.  A file is a sequence of lines, a line a sequence of fields; a   *)
(* field is the literal of an integer ("2"), of a decimal ("2.5", "2.0")   *)
(* or some other text.                                                     *)
(***************************************************************************)
IntLit(n) == [k |-> "int", v |-> n * Scale]
DecLit(u) == [k |-> "float", v |-> u]
TextLit == [k |-> "text", v |-> TextCell]

Int3File ==
    << << IntLit(0), IntLit(0), IntLit(0) >>,
       << IntLit(0), IntLit(1), IntLit(0) >>,
       << IntLit(0), IntLit(0), IntLit(0) >> >>

Float32File ==
    << << DecLit(Scale), DecLit(Scale + 1) >>,
       << DecLit(Scale), IntLit(1) >>,
       << DecLit(1), DecLit(Scale) >> >>

Header2File ==
    << << TextLit, TextLit >>,
       << DecLit(Scale), IntLit(1) >> >>

\* 5 rows of 5 zeros.
Zero5File == [r \in 1..5 |-> [c \in 1..5 |-> DecLit(0)]]

Paths == {"", "missing.csv", "int3.csv", "float32.csv", "header2.csv"}

\* The file at a path; "saved.csv" is the file save_csv wrote in the step before.
FileAt(path, saved) ==
    CASE path = "int3.csv" -> Int3File
      [] path = "float32.csv" -> Float32File
      [] path = "header2.csv" -> Header2File
      [] path = "zero5.csv" -> Zero5File
      [] path = "saved.csv" -> saved
      [] OTHER -> NoFile

(***************************************************************************)
(* Arrays.                                                                 *)
(***************************************************************************)
Rows(a) == Len(a.cells)
Cols(a) == IF Len(a.cells) = 0 THEN 0 ELSE Len(a.cells[1])
Shape(a) == << Rows(a), Cols(a) >>
MaskShape(m) == << Len(m), IF Len(m) = 0 THEN 0 ELSE Len(m[1]) >>

\* pd.read_csv(filepath, header=None).values: a column holding any text is a
\* column of strings, and the array is then of dtype object; all-integer
\* columns give int64; anything else float64.
ColumnIsText(file, c) == \E r \in 1..Len(file) : file[r][c].k = "text"

read_csv(file) ==
    LET rows == Len(file)
        cols == Len(file[1])
        anyText == \E c \in 1..cols : ColumnIsText(file, c)
        allInt == \A r \in 1..rows : \A c \in 1..cols : file[r][c].k = "int"
    IN  [dtype |-> IF anyText THEN "object"
                   ELSE IF allInt THEN "int64" ELSE "float64",
         cells |-> [r \in 1..rows |-> [c \in 1..cols |->
                       IF ColumnIsText(file, c) THEN TextCell ELSE file[r][c].v]]]

\* With index=True each line starts with the number of its row.
to_csv_with_index(a) ==
    [r \in 1..Rows(a) |-> [c \in 1..(Cols(a) + 1) |->
        IF c = 1 THEN IntLit(r - 1)
        ELSE LET u == a.cells[r][c - 1]
             IN  IF u = TextCell THEN TextLit
                 ELSE IF a.dtype = "int64" \/ (a.dtype = "object" /\ u % Scale = 0)
                      THEN [k |-> "int", v |-> u]
                      ELSE DecLit(u)]]

\* pd.DataFrame(data).to_csv(filepath, header=False, index=False)
to_csv(a) ==
    [r \in 1..Rows(a) |-> [c \in 1..Cols(a) |->
        LET u == a.cells[r][c]
        IN  IF u = TextCell THEN TextLit
            ELSE IF a.dtype = "int64" \/ (a.dtype = "object" /\ u % Scale = 0)
                 THEN [k |-> "int", v |-> u]
                 ELSE DecLit(u)]]

\* Python int(): truncation toward zero.
PyInt(u) == IF u >= 0 THEN u \div Scale ELSE 0 - ((0 - u) \div Scale)

\* Storing a float into an array: an int64 array keeps the truncated value.
CastTo(dtype, u) == IF dtype = "int64" THEN PyInt(u) * Scale ELSE u


\* ndarray.copy(): a new array that shares no memory with its source.
ndarray_view(a) == [array |-> a, shares |-> TRUE]

ndarray_copy(a) == [array |-> a, shares |-> FALSE]

(***************************************************************************)
(* Polygon mask.  Path(points).contains_points(coords) with the default    *)
(* radius 0 is the crossings test over the edges of the implicitly closed  *)
(* polygon: an edge a -> b whose ends lie on opposite sides of the test    *)
(* point's horizontal toggles the result when the +X ray from the point    *)
(* meets it.  yflag is "vertex y >= point y"; a path of fewer than three   *)
(* vertices contains nothing.                                              *)
(***************************************************************************)
EdgeCrosses(a, b, tx, ty) ==
    LET yflag0 == (a[2] >= ty)
        yflag1 == (b[2] >= ty)
    IN  /\ yflag0 # yflag1
        /\ (((b[2] - ty) * (a[1] - b[1]) >= (b[1] - tx) * (a[2] - b[2])) <=> yflag1)

contains_point(path, tx, ty) ==
    LET n == Len(path)
    IN  /\ n >= 3
        /\ Cardinality({i \in 1..n :
               EdgeCrosses(path[i], path[(i % n) + 1], tx, ty)}) % 2 = 1

\* The grid built with its axes exchanged: a mask of shape (columns, rows).
create_polygon_mask_swapped(pts, a) ==
    [r \in 1..Cols(a) |-> [c \in 1..Rows(a) |-> contains_point(pts, r - 1, c - 1)]]

create_polygon_mask(pts, a) ==
    [r \in 1..Rows(a) |-> [c \in 1..Cols(a) |-> contains_point(pts, c - 1, r - 1)]]

\* The true entries of a mask; np.any(mask).
MaskTrue(m) == {rc \in (1..Len(m)) \X (1..MaskShape(m)[2]) : m[rc[1]][rc[2]]}

AnyTrueOrAllFalse(m) == Len(m) > 0

AnyTrue(m) == MaskTrue(m) # {}

\* self.data[mask] = fill_value
SetMasked(a, m, value) ==
    [a EXCEPT !.cells = [r \in 1..Rows(a) |-> [c \in 1..Cols(a) |->
        IF m[r][c] THEN CastTo(a.dtype, value) ELSE a.cells[r][c]]]]

(***************************************************************************)
(* ThermalImageProcessor (thermal_processor/core.py).  A DataFrame is a    *)
(* record [rows, ncols]: the sequence of its rows and its number of        *)
(* columns (a frame of no rows still has columns).  An optional argument   *)
(* is << >> for None and <<v>> for the value v.  A thermal export is a     *)
(* file of header lines followed by the rows of temperatures.              *)
(***************************************************************************)
MaxOut == 2
MaxHistory == 3

DefaultSkiprows == 10

NoFrame == [rows |-> << >>, ncols |-> 0 - 1]
NaNCell == 0 - 2
NoPath == ""
Missing == [exists |-> FALSE, lines |-> << >>]

HeaderLines == [i \in 1..DefaultSkiprows |-> << TextLit, TextLit >>]

\* 3 rows of 3 temperatures, all different.
Thermal33File ==
    HeaderLines \o [r \in 1..3 |-> [c \in 1..3 |-> DecLit(3 * (r - 1) + c)]]

\* 2 rows of a text label and 2 temperatures.
Labelled23File ==
    HeaderLines \o [r \in 1..2 |-> << TextLit, DecLit(10 + 2 * r), DecLit(11 + 2 * r) >>]

\* An export cut off after its header.
TruncatedFile == HeaderLines

SourceFiles == {"thermal33.csv", "labelled23.csv", "truncated.csv"}

SourceAt(path) ==
    CASE path = "thermal33.csv" -> Thermal33File
      [] path = "labelled23.csv" -> Labelled23File
      [] path = "truncated.csv" -> TruncatedFile
      [] OTHER -> NoFile

\* Path(path).stem
Stem(path) ==
    CASE path = "thermal33.csv" -> "thermal33"
      [] path = "labelled23.csv" -> "labelled23"
      [] path = "truncated.csv" -> "truncated"
      [] path = "missing.csv" -> "missing"
      [] OTHER -> ""

NRows(frame) == Len(frame.rows)
FrameShape(frame) == << NRows(frame), frame.ncols >>
HasText(frame) ==
    \E r \in 1..NRows(frame) : \E c \in 1..frame.ncols : frame.rows[r][c] = TextCell

\* pd.read_csv(file_path, header=None, skiprows=skiprows) raises when there is
\* no file, when no line is left after the skipped ones, and when a line has
\* more fields than the first line read.
ReadRaises(file, skiprows) ==
    \/ file = NoFile
    \/ Len(file) <= skiprows
    \/ \E r \in (skiprows + 2)..Len(file) : Len(file[r]) > Len(file[skiprows + 1])

\* The frame it returns otherwise: a shorter line is filled up with NaN, a
\* column holding any text is a column of strings.
pd_read_csv(file, skiprows) ==
    LET lines == SubSeq(file, skiprows + 1, Len(file))
        ncols == Len(lines[1])
        Field(r, c) == IF c <= Len(lines[r]) THEN lines[r][c]
                       ELSE [k |-> "empty", v |-> NaNCell]
        IsText(c) == \E r \in 1..Len(lines) : Field(r, c).k = "text"
    IN  [rows |-> [r \in 1..Len(lines) |-> [c \in 1..ncols |->
                      IF IsText(c) THEN TextCell ELSE Field(r, c).v]],
         ncols |-> ncols]

\* The bound i of a Python slice over n items.
SliceBound(i, n) ==
    IF i < 0 THEN (IF i + n < 0 THEN 0 ELSE i + n) ELSE IF i > n THEN n ELSE i

iloc_inclusive(frame, start_row, end_row, start_col, end_col) ==
    LET r0 == SliceBound(start_row, NRows(frame))
        r1 == SliceBound(end_row + 1, NRows(frame))
        c0 == SliceBound(start_col, frame.ncols)
        c1 == SliceBound(end_col + 1, frame.ncols)
        kept == SubSeq(frame.rows, r0 + 1, r1)
    IN  [rows |-> [r \in 1..Len(kept) |-> SubSeq(kept[r], c0 + 1, c1)],
         ncols |-> IF c1 > c0 THEN c1 - c0 ELSE 0]

\* frame.iloc[start_row:end_row, start_col:end_col]
iloc(frame, start_row, end_row, start_col, end_col) ==
    LET r0 == SliceBound(start_row, NRows(frame))
        r1 == SliceBound(end_row, NRows(frame))
        c0 == SliceBound(start_col, frame.ncols)
        c1 == SliceBound(end_col, frame.ncols)
        kept == SubSeq(frame.rows, r0 + 1, r1)
    IN  [rows |-> [r \in 1..Len(kept) |-> SubSeq(kept[r], c0 + 1, c1)],
         ncols |-> IF c1 > c0 THEN c1 - c0 ELSE 0]

\* skimage.transform.resize(values, output_size, order=0, anti_aliasing=False,
\* preserve_range=True) raises on an array of strings and on an array with
\* no element.
ResizeRaises(frame) ==
    HasText(frame) \/ NRows(frame) = 0 \/ frame.ncols = 0

\* Otherwise output cell (i, j) is the input cell nearest to the centre of
\* the output cell: index floor((i + 1/2) * n / size) counting from 0.
Nearest(i, n, size) == ((2 * i - 1) * n) \div (2 * size) + 1

resize_swapped(frame, output_size) ==
    [rows |-> [i \in 1..output_size[2] |-> [j \in 1..output_size[1] |->
                  frame.rows[Nearest(i, NRows(frame), output_size[2])]
                            [Nearest(j, frame.ncols, output_size[1])]]],
     ncols |-> output_size[1]]

resize(frame, output_size) ==
    [rows |-> [i \in 1..output_size[1] |-> [j \in 1..output_size[2] |->
                  frame.rows[Nearest(i, NRows(frame), output_size[1])]
                            [Nearest(j, frame.ncols, output_size[2])]]],
     ncols |-> output_size[2]]

\* frame.to_csv(output_file, header=False, index=False)
frame_to_csv(frame) ==
    [r \in 1..NRows(frame) |-> [c \in 1..frame.ncols |->
        LET u == frame.rows[r][c]
        IN  IF u = TextCell THEN TextLit
            ELSE IF u = NaNCell THEN [k |-> "empty", v |-> NaNCell]
            ELSE DecLit(u)]]

(***************************************************************************)
(* ThermalImageProcessor: what each method does to the processor record p  *)
(* = [data, file_path, processing_history].  Every method catches what its *)
(* body raises and prints it.  An entry of the history is the first word   *)
(* of the line the method appends ("Loaded <path>" is "Loaded").           *)
(***************************************************************************)
NewProcessor ==
    [data |-> NoFrame, file_path |-> NoPath, processing_history |-> << >>]

OrElse(optional, default) == IF optional = None THEN default ELSE optional[1]

LoadCsv(p, file_path, skiprows, drop_first_column) ==
    LET file == SourceAt(file_path)
        q == [p EXCEPT !.file_path = file_path]
        frame == pd_read_csv(file, skiprows)
    IN  IF ReadRaises(file, skiprows) THEN q
        ELSE [q EXCEPT
                !.data = IF drop_first_column
                         THEN iloc(frame, 0, NRows(frame), 1, frame.ncols)
                         ELSE frame,
                !.processing_history = Append(@, "Loaded")]

Crop(p, start_row, end_row, start_col, end_col) ==
    LET cropped == iloc(p.data, start_row, OrElse(end_row, NRows(p.data)),
                        start_col, OrElse(end_col, p.data.ncols))
    IN  IF p.data = NoFrame THEN p
        ELSE [p EXCEPT
                !.data = cropped,
                !.processing_history =
                    Append(@, "Cropped")]

DownsampleLogsFirst(p, output_size) ==
    IF p.data = NoFrame THEN p
    ELSE [p EXCEPT
            !.data = IF ResizeRaises(p.data) THEN @ ELSE resize(p.data, output_size),
            !.processing_history = Append(@, "Downsampled")]

Downsample(p, output_size) ==
    IF p.data = NoFrame \/ ResizeRaises(p.data) THEN p
    ELSE [p EXCEPT
            !.data = resize(p.data, output_size),
            !.processing_history =
                Append(@, "Downsampled")]

\* imshow raises on an array of strings; shown is FALSE when the figure
\* cannot be shown.
Visualize(p, shown) ==
    IF p.data = NoFrame \/ HasText(p.data) \/ ~shown THEN p
    ELSE [p EXCEPT !.processing_history = Append(@, "Visualized data")]

Timestamp == "T"
Unwritable == {"nodir/out.csv"}

\* The name save gives the output when it is passed none.
DefaultName(file_path, suffix) ==
    IF suffix # None /\ suffix # << "" >>
    THEN Stem(file_path) \o "_" \o suffix[1] \o ".csv"
    ELSE Stem(file_path) \o "_processed_" \o Timestamp \o ".csv"

\* save: the processor, the files and the returned value afterwards.
Save(p, files, output_file, suffix) ==
    LET path == OrElse(output_file, DefaultName(p.file_path, suffix))
        failed == [processor |-> p, outputs |-> files, returned |-> "None"]
    IN  IF p.data = NoFrame THEN failed
        ELSE IF output_file = None /\ p.file_path = NoPath THEN failed
        ELSE IF path \in Unwritable THEN failed
        ELSE [processor |-> [p EXCEPT !.processing_history =
                                          Append(@, "Saved to")],
              outputs |-> [files EXCEPT ![path] =
                              [exists |-> TRUE, lines |-> frame_to_csv(p.data)]],
              returned |-> path]

\* The output name batch_process gives the source file file_path.
BatchName(file_path, downsample_params) ==
    LET output_suffix ==
            IF downsample_params = None THEN "processed"
            ELSE "processed_" \o ToString(downsample_params[1][1]) \o "x"
                              \o ToString(downsample_params[1][2])
    IN  "dest/" \o Stem(file_path) \o "_" \o output_suffix \o ".csv"

\* One pass of the loop of batch_process over the file file_path.
BatchStep(st, file_path, crop_params, downsample_params, drop_first_column) ==
    LET p1 == LoadCsv(st.processor, file_path, DefaultSkiprows, drop_first_column)
        p2 == IF crop_params = None THEN p1
              ELSE Crop(p1, crop_params[1][1], crop_params[1][2],
                            crop_params[1][3], crop_params[1][4])
        p3 == IF downsample_params = None THEN p2
              ELSE Downsample(p2, downsample_params[1])
        sv == Save(p3, st.outputs,
                   << BatchName(file_path, downsample_params) >>, None)
    IN  [processor |-> sv.processor,
         outputs |-> sv.outputs,
         processed_files |-> IF sv.returned # "None"
                             THEN Append(st.processed_files, sv.returned)
                             ELSE st.processed_files]

RECURSIVE BatchLoop(_, _, _, _, _)
BatchLoop(st, csv_files, crop_params, downsample_params, drop_first_column) ==
    IF csv_files = << >> THEN st
    ELSE BatchLoop(BatchStep(st, Head(csv_files), crop_params,
                             downsample_params, drop_first_column),
                   Tail(csv_files), crop_params, downsample_params,
                   drop_first_column)

(***************************************************************************)
(* The calls made on the processor.                                        *)
(***************************************************************************)
MaxFiles == 2

LoadPaths == SourceFiles \cup {"missing.csv"}
LoadArgs ==
    (SourceFiles \X {DefaultSkiprows} \X BOOLEAN)
        \cup { << "missing.csv", DefaultSkiprows, TRUE >>,
               << "thermal33.csv", 0, TRUE >> }
CropArgs ==
    { << 1, None, 0, None >>, << 0, << 1 >>, 1, << 2 >> >>,
      << 1, << 1 >>, 0, None >> }
OutputSizes == { << 1, MaxOut >>, << MaxOut, MaxOut >> }
Suffixes == {None, << "cropped" >>}
SaveArgs ==
    { << None, None >>, << None, << "cropped" >> >>,
      << << "out.csv" >>, None >>, << << "nodir/out.csv" >>, None >> }
BatchDownsampleParams == {None, << << 1, MaxOut >> >>}
BatchParams ==
    { << None, None >>, << << << 1, None, 0, None >> >>, << << 1, MaxOut >> >> >> }

\* What source_dir.glob(file_pattern) may list: the files of a directory, in
\* any order.
RECURSIVE ListsOf(_, _)
ListsOf(files, n) ==
    IF n = 0 THEN {<< >>}
    ELSE {<< >>} \cup {<< f >> \o rest : f \in files, rest \in ListsOf(files, n - 1)}

CsvFiles ==
    {l \in ListsOf(SourceFiles, MaxFiles) :
        \A i, j \in 1..Len(l) : l[i] = l[j] => i = j}

OutPaths ==
    {"out.csv"}
        \cup {DefaultName(f, suffix) : f \in LoadPaths, suffix \in Suffixes}
        \cup {BatchName(f, d) : f \in SourceFiles, d \in BatchDownsampleParams}

NoOutputs == [path \in OutPaths |-> Missing]

(***************************************************************************)
(* State.                                                                  *)
(***************************************************************************)
VARIABLES
    data,               \* self.data
    original_data,      \* self.original_data
    aliased,            \* self.data and self.original_data are one array object
    points,             \* self.points
    polygon,            \* vertices of the patch self.polygon, None if no patch
    current_selection,  \* self.current_selection
    phase,              \* "constructed", "running" (plt.show), "exited"
    lastOp,             \* the handler that ran last
    signal,             \* the message box the last handler showed, or "none"
    mask,               \* fill_region's local mask, None outside it
    fill_value,         \* fill_region's local fill_value, Cancelled outside it
    written,            \* the file the last handler wrote, NoFile if it wrote none
    loaded,             \* history: the array read by the last load_csv that returned True
    partial_load,       \* history: a later load_csv returned False after assigning self.data
    changed,            \* history: the last handler changed self.data
    prev_state          \* history: the selection state the last handler started in

\* A ThermalImageProcessor (thermal_processor/core.py), the files it wrote
\* and what its last call returned.
VARIABLES
    processor,          \* [data, file_path, processing_history] of the instance
    outputs,            \* the file the last call wrote at each output path
    stage,              \* the method called last and its arguments
    returned,           \* what that call returned
    processed_files     \* the list batch_process returned last

editor_vars == << data, original_data, aliased, points, polygon, current_selection,
                  phase, lastOp, signal, mask, fill_value, written, loaded,
                  partial_load, changed, prev_state >>
processor_vars == << processor, outputs, stage, returned, processed_files >>
vars == << editor_vars, processor_vars >>

Cancelled == 0 - 1

\* Answers of the fill dialog: askfloat accepts minvalue <= v <= maxvalue only.
DialogAnswers ==
    {v \in {2 * Scale + 1, (FillMax + 1) * Scale} :
        FillMin * Scale <= v /\ v <= FillMax * Scale} \cup {Cancelled}

\* Mouse events: a press at (xdata, ydata), inside the image axes or not
\* (a press on a button's axes), with the left button 1 or another.
MouseEvent(inaxes, button, xdata, ydata) ==
    [inaxes |-> inaxes, button |-> button, xdata |-> xdata, ydata |-> ydata]

ClickEvents ==
    { MouseEvent(TRUE, 1, 0 - 1, 0),
      MouseEvent(TRUE, 1, 2 * Scale + 1, 0),
      MouseEvent(TRUE, 1, 0, 2 * Scale),
      MouseEvent(TRUE, 1, 3 * Scale, Scale),
      MouseEvent(TRUE, 3, 0, 0),
      MouseEvent(FALSE, 1, 0, 0) }

Keys == {"enter", "escape", "a"}

\* The selection states: no points, 1-2 points, 3 or more unclosed points,
\* a committed selection.
SelState(pts, sel) ==
    IF sel # None THEN "Closed"
    ELSE IF Len(pts) = 0 THEN "Idle"
    ELSE IF Len(pts) < MinPoints THEN "Drawing"
    ELSE "ReadyToClose"

Init ==
    /\ data = NoneArray
    /\ original_data = NoneArray
    /\ aliased = FALSE
    /\ points = << >>
    /\ polygon = None
    /\ current_selection = None
    /\ phase = "constructed"
    /\ lastOp = "init"
    /\ signal = "none"
    /\ mask = None
    /\ fill_value = Cancelled
    /\ written = NoFile
    /\ loaded = NoneArray
    /\ partial_load = FALSE
    /\ changed = FALSE
    /\ prev_state = "Idle"
    /\ processor = NewProcessor
    /\ outputs = NoOutputs
    /\ stage = << "init" >>
    /\ returned = "None"
    /\ processed_files = << >>

NoLocals == mask' = None /\ fill_value' = Cancelled
NoOutput == written' = NoFile
History ==
    /\ changed' = (data' # data)
    /\ prev_state' = SelState(points, current_selection)

(***************************************************************************)
(* Operations.                                                             *)
(***************************************************************************)
KeepSelection == UNCHANGED << points, polygon, current_selection >>
KeepImage == UNCHANGED << data, original_data, aliased, loaded, partial_load >>

\* cancel_selection: self.points = []; the patch removed; no selection.
cancel_selection_points_only ==
    /\ points' = << >>
    /\ UNCHANGED << polygon, current_selection >>

cancel_selection ==
    /\ points' = << >>
    /\ polygon' = None
    /\ current_selection' = None

\* How a load_csv(path) call ends: the dialog cancelled (line 38), an
\* exception before self.data is assigned (no such file), an exception after
\* it (line 45 cannot take the minimum of, or format, an array of strings),
\* or success.
LoadOutcome(path) ==
    IF path = "" THEN "cancelled"
    ELSE IF FileAt(path, written) = NoFile THEN "raised_before"
    ELSE IF read_csv(FileAt(path, written)).dtype = "object" THEN "raised_after"
    ELSE "ok"

load_csv(path) ==
    LET outcome == LoadOutcome(path)
    IN  /\ signal' = IF outcome \in {"raised_before", "raised_after"}
                     THEN "LoadError" ELSE "none"
        /\ IF outcome \in {"cancelled", "raised_before"}
           THEN KeepImage
           ELSE LET arr == read_csv(FileAt(path, written))
                    cp == ndarray_copy(arr)
                IN  /\ data' = arr
                    /\ original_data' = cp.array
                    /\ aliased' = cp.shares
                    /\ loaded' = IF outcome = "ok" THEN arr ELSE loaded
                    /\ partial_load' = (outcome # "ok")

\* run(csv_path): load, and only after a successful load show the plot.
Run(path) ==
    /\ phase = "constructed"
    /\ load_csv(path)
    /\ phase' = IF LoadOutcome(path) = "ok" THEN "running" ELSE "exited"
    /\ lastOp' = "run"
    /\ KeepSelection
    /\ NoLocals
    /\ NoOutput
    /\ History
    /\ UNCHANGED processor_vars

load_new_csv(path) ==
    /\ phase = "running"
    /\ load_csv(path)
    /\ IF LoadOutcome(path) = "ok" THEN cancel_selection ELSE KeepSelection
    /\ lastOp' = "load_new_csv"
    /\ NoLocals
    /\ NoOutput
    /\ UNCHANGED phase
    /\ History
    /\ UNCHANGED processor_vars

InBounds(x, y, a) == 0 <= x /\ x < Cols(a) /\ 0 <= y /\ y < Rows(a)

on_click(event) ==
    /\ phase = "running"
    /\ Len(points) < MaxPoints
    /\ LET x == PyInt(event.xdata)
           y == PyInt(event.ydata)
       IN  points' = IF event.inaxes /\ event.button = 1 /\ InBounds(x, y, data)
                     THEN Append(points, << x, y >>)
                     ELSE points
    /\ lastOp' = "on_click"
    /\ signal' = "none"
    /\ KeepImage
    /\ NoLocals
    /\ NoOutput
    /\ UNCHANGED << polygon, current_selection, phase >>
    /\ History
    /\ UNCHANGED processor_vars

\* close_region past its guard: the patch and the selection are copies of
\* the point list.
CommitSelection ==
    /\ polygon' = points
    /\ current_selection' = points
    /\ UNCHANGED points

close_region ==
    /\ phase = "running"
    /\ IF Len(points) < MinPoints
       THEN signal' = "InsufficientPoints" /\ KeepSelection
       ELSE signal' = "none" /\ CommitSelection
    /\ lastOp' = "close_region"
    /\ KeepImage
    /\ NoLocals
    /\ NoOutput
    /\ UNCHANGED phase
    /\ History
    /\ UNCHANGED processor_vars

on_key_press(key) ==
    /\ phase = "running"
    /\ IF key = "enter" /\ Len(points) >= MinPoints
       THEN CommitSelection
       ELSE IF key = "escape" THEN cancel_selection ELSE KeepSelection
    /\ signal' = "none"
    /\ lastOp' = "on_key_press_" \o key
    /\ KeepImage
    /\ NoLocals
    /\ NoOutput
    /\ UNCHANGED phase
    /\ History
    /\ UNCHANGED processor_vars

CancelSelection ==
    /\ phase = "running"
    /\ cancel_selection
    /\ signal' = "none"
    /\ lastOp' = "cancel_selection"
    /\ KeepImage
    /\ NoLocals
    /\ NoOutput
    /\ UNCHANGED phase
    /\ History
    /\ UNCHANGED processor_vars

\* Lines 180-196 raise, and the handler reports the exception, when the mask
\* does not index the array or the region statistics meet strings.
FillRaises(m) == MaskShape(m) # Shape(data) \/ data.dtype = "object"

\* Lines 207-217: the masked store, then the selection cleared.
FillCommitKeepSelection(m, answer) ==
    /\ data' = SetMasked(data, m, answer)
    /\ original_data' = IF aliased THEN data' ELSE original_data
    /\ KeepSelection
    /\ UNCHANGED << aliased, loaded, partial_load >>

FillCommit(m, answer) ==
    /\ data' = SetMasked(data, m, answer)
    /\ original_data' = IF aliased THEN data' ELSE original_data
    /\ cancel_selection
    /\ UNCHANGED << aliased, loaded, partial_load >>

\* fill_region(answer): answer is what the fill dialog returns if it is
\* reached.
fill_region(answer) ==
    /\ phase = "running"
    /\ lastOp' = "fill_region"
    /\ IF current_selection = None
       THEN /\ signal' = "NoSelection"
            /\ NoLocals
            /\ KeepSelection
            /\ KeepImage
       ELSE LET m == create_polygon_mask(current_selection, data)
            IN  /\ mask' = m
                /\ IF ~AnyTrue(m)
                   THEN /\ signal' = "EmptySelection"
                        /\ fill_value' = Cancelled
                        /\ KeepSelection
                        /\ KeepImage
                   ELSE IF FillRaises(m)
                   THEN /\ signal' = "FillError"
                        /\ fill_value' = Cancelled
                        /\ KeepSelection
                        /\ KeepImage
                   ELSE IF answer = Cancelled
                   THEN /\ signal' = "none"
                        /\ fill_value' = Cancelled
                        /\ KeepSelection
                        /\ KeepImage
                   ELSE /\ signal' = "none"
                        /\ fill_value' = answer
                        /\ FillCommit(m, answer)
    /\ NoOutput
    /\ UNCHANGED phase
    /\ History
    /\ UNCHANGED processor_vars

reset_image_selection_only ==
    IF original_data # NoneArray
    THEN cancel_selection /\ KeepImage
    ELSE KeepImage /\ KeepSelection

reset_image ==
    IF original_data # NoneArray
    THEN LET cp == ndarray_copy(original_data)
         IN  /\ data' = cp.array
             /\ aliased' = cp.shares
             /\ cancel_selection
             /\ UNCHANGED << original_data, loaded, partial_load >>
    ELSE KeepImage /\ KeepSelection

ResetImage ==
    /\ phase = "running"
    /\ reset_image
    /\ signal' = "none"
    /\ lastOp' = "reset_image"
    /\ NoLocals
    /\ NoOutput
    /\ UNCHANGED phase
    /\ History
    /\ UNCHANGED processor_vars

undo_last_action ==
    /\ phase = "running"
    /\ reset_image
    /\ signal' = "none"
    /\ lastOp' = "undo_last_action"
    /\ NoLocals
    /\ NoOutput
    /\ UNCHANGED phase
    /\ History
    /\ UNCHANGED processor_vars

\* save_csv(outcome): the save dialog cancelled, the file written, or the
\* write raising.
SaveOutcomes == {"cancelled", "written", "raised"}

save_csv(outcome) ==
    /\ phase = "running"
    /\ written' = IF outcome = "written" THEN to_csv(data) ELSE NoFile
    /\ signal' = CASE outcome = "written" -> "SaveInfo"
                   [] outcome = "raised" -> "SaveError"
                   [] OTHER -> "none"
    /\ lastOp' = "save_csv"
    /\ KeepImage
    /\ KeepSelection
    /\ NoLocals
    /\ UNCHANGED phase
    /\ History
    /\ UNCHANGED processor_vars

Next ==
    \/ \E path \in Paths : Run(path)
    \/ \E path \in Paths : load_new_csv(path)
    \/ \E event \in ClickEvents : on_click(event)
    \/ \E key \in Keys : on_key_press(key)
    \/ close_region
    \/ CancelSelection
    \/ \E answer \in DialogAnswers : fill_region(answer)
    \/ ResetImage
    \/ undo_last_action
    \/ \E outcome \in SaveOutcomes : save_csv(outcome)

Spec == Init /\ [][Next]_vars

(***************************************************************************)
(* The editor on the image of zeros: presses on the corners of the square  *)
(* (1,1), (3,1), (3,3), (1,3) and on the middle (1,2) of its left side,    *)
(* Enter, Escape and the fill dialog answered with 99.0 or cancelled, up   *)
(* to the first fill.                                                      *)
(***************************************************************************)
Square == << << 1, 1 >>, << 3, 1 >>, << 3, 3 >>, << 1, 3 >> >>

SquareClicks ==
    {MouseEvent(TRUE, 1, Square[i][1] * Scale, Square[i][2] * Scale) : i \in 1..4}
        \cup {MouseEvent(TRUE, 1, Scale, 2 * Scale)}

SquareFill == 99 * Scale

SquareClick(event) == data = loaded /\ on_click(event)
SquareKey(key) == data = loaded /\ on_key_press(key)
SquareFillRegion(answer) == data = loaded /\ fill_region(answer)

NextSquare ==
    \/ Run("zero5.csv")
    \/ \E event \in SquareClicks : SquareClick(event)
    \/ \E key \in {"enter", "escape"} : SquareKey(key)
    \/ \E answer \in {SquareFill, Cancelled} : SquareFillRegion(answer)

SpecSquare == Init /\ [][NextSquare]_vars

(***************************************************************************)
(* The editor saving its matrix and loading the saved file again: an image *)
(* is loaded, regions are drawn and filled, the matrix is saved, and "Load *)
(* New CSV" is pointed at the file just saved.  The runs end there.        *)
(***************************************************************************)
Reloaded == lastOp = "load_new_csv"

RoundTripClick(event) == ~Reloaded /\ on_click(event)
RoundTripKey(key) == ~Reloaded /\ on_key_press(key)
RoundTripFill(answer) == ~Reloaded /\ fill_region(answer)
RoundTripSave == ~Reloaded /\ save_csv("written")
RoundTripLoad == ~Reloaded /\ load_new_csv("saved.csv")

NextRoundTrip ==
    \/ \E path \in Paths : Run(path)
    \/ \E event \in ClickEvents : RoundTripClick(event)
    \/ \E key \in {"enter"} : RoundTripKey(key)
    \/ \E answer \in DialogAnswers : RoundTripFill(answer)
    \/ RoundTripSave
    \/ RoundTripLoad

SpecRoundTrip == Init /\ [][NextRoundTrip]_vars

(***************************************************************************)
(* The processor driven by a caller: any method with any argument, on one  *)
(* instance.  The editor takes no part.  No method reads a file it wrote,  *)
(* so outputs keeps the files of the last call only.                       *)
(***************************************************************************)
\* The runs explored: no call but save once the history has MaxHistory
\* entries, no call at all once it has more.
CanCall == Len(processor.processing_history) < MaxHistory

\* What load_csv, crop, downsample and visualize return: return self, on
\* every path.
return_self_if_changed(before, after) ==
    IF after = before THEN "None" ELSE "self"

return_self(before, after) == "self"

processor_load_csv(file_path, skiprows, drop_first_column) ==
    /\ CanCall
    /\ processor' = LoadCsv(processor, file_path, skiprows, drop_first_column)
    /\ stage' = << "load_csv", file_path, skiprows, drop_first_column >>
    /\ returned' = return_self(processor, processor')
    /\ outputs' = NoOutputs
    /\ processed_files' = << >>
    /\ UNCHANGED editor_vars

crop(start_row, end_row, start_col, end_col) ==
    /\ CanCall
    /\ processor' = Crop(processor, start_row, end_row, start_col, end_col)
    /\ stage' = << "crop", start_row, end_row, start_col, end_col >>
    /\ returned' = return_self(processor, processor')
    /\ outputs' = NoOutputs
    /\ processed_files' = << >>
    /\ UNCHANGED editor_vars

downsample(output_size) ==
    /\ CanCall
    /\ processor' = Downsample(processor, output_size)
    /\ stage' = << "downsample", output_size >>
    /\ returned' = return_self(processor, processor')
    /\ outputs' = NoOutputs
    /\ processed_files' = << >>
    /\ UNCHANGED editor_vars

visualize(shown) ==
    /\ CanCall
    /\ processor' = Visualize(processor, shown)
    /\ stage' = << "visualize", shown >>
    /\ returned' = return_self(processor, processor')
    /\ outputs' = NoOutputs
    /\ processed_files' = << >>
    /\ UNCHANGED editor_vars

save(output_file, suffix) ==
    LET sv == Save(processor, NoOutputs, output_file, suffix)
    IN  /\ Len(processor.processing_history) <= MaxHistory
        /\ processor' = sv.processor
        /\ outputs' = sv.outputs
        /\ returned' = sv.returned
        /\ stage' = << "save", output_file, suffix >>
        /\ processed_files' = << >>
        /\ UNCHANGED editor_vars

batch_process(csv_files, crop_params, downsample_params, drop_first_column) ==
    LET st == BatchLoop([processor |-> processor, outputs |-> NoOutputs,
                         processed_files |-> << >>],
                        csv_files, crop_params, downsample_params,
                        drop_first_column)
    IN  /\ CanCall
        /\ processor' = st.processor
        /\ outputs' = st.outputs
        /\ processed_files' = st.processed_files
        /\ returned' = "list"
        /\ stage' = << "batch_process", csv_files, crop_params,
                       downsample_params, drop_first_column >>
        /\ UNCHANGED editor_vars

NextProcessor ==
    \/ \E args \in LoadArgs : processor_load_csv(args[1], args[2], args[3])
    \/ \E args \in CropArgs : crop(args[1], args[2], args[3], args[4])
    \/ \E output_size \in OutputSizes : downsample(output_size)
    \/ \E shown \in BOOLEAN : visualize(shown)
    \/ \E args \in SaveArgs : save(args[1], args[2])
    \/ \E csv_files \in CsvFiles, params \in BatchParams :
            batch_process(csv_files, params[1], params[2], TRUE)

SpecProcessor == Init /\ [][NextProcessor]_vars

(***************************************************************************)
(* Properties.                                                             *)
(***************************************************************************)
LoadOps == {"run", "load_new_csv"}
CancelOps == {"cancel_selection", "on_key_press_escape"}
ResetOps == {"reset_image", "undo_last_action"}
Filled == lastOp = "fill_region" /\ fill_value # Cancelled
AllInBounds(pts) == \A i \in 1..Len(pts) : InBounds(pts[i][1], pts[i][2], data)
AllFalse(m) == \A r \in 1..Len(m) : \A c \in 1..Len(m[r]) : ~m[r][c]

\* C1: after a confirmed fill with value V every pixel where the mask is
\* true equals V and every pixel where it is false holds the value it had
\* before the fill.
C1_FillSetsMaskToValue ==
    [][(lastOp' = "fill_region" /\ fill_value' # Cancelled) =>
          \A r \in 1..Rows(data) : \A c \in 1..Cols(data) :
              data'.cells[r][c] =
                  IF mask'[r][c] THEN fill_value' ELSE data.cells[r][c]]_vars

\* C2: after a successful load, whatever was clicked, closed, cancelled and
\* filled since, reset_image and undo_last_action leave the working matrix
\* equal to the matrix as it was loaded.
C2_ResetRestoresLoaded ==
    (lastOp \in ResetOps /\ ~partial_load) => data = loaded

C2_ResetUndoesFill ==
    lastOp = "reset_image" /\ ~partial_load /\ changed /\ data = loaded

\* C3: with fewer than 3 points a close attempt, by the Enter key or by
\* close_region, signals InsufficientPoints and leaves the matrix, the point
\* list and the committed selection unchanged.
C3_CloseSignalsInsufficientPoints ==
    [][(Len(points) < MinPoints /\ lastOp' \in {"on_key_press_enter", "close_region"}) =>
          /\ signal' = "InsufficientPoints"
          /\ data' = data
          /\ points' = points
          /\ current_selection' = current_selection]_vars

\* C4: a committed selection keeps its vertex sequence in every later state
\* until a cancel or a fill removes it.
C4_ClosedSelectionImmutable ==
    [][current_selection # None =>
          current_selection' \in {current_selection, None}]_vars

\* C5: cancel_selection is accepted in every selection state, and leaves the
\* selection as it is in a freshly loaded editor: no points, no patch, no
\* committed selection.
C5_CancelReturnsToIdle ==
    /\ phase = "running" => ENABLED CancelSelection /\ ENABLED on_key_press("escape")
    /\ lastOp \in CancelOps =>
           /\ points = << >>
           /\ polygon = None
           /\ current_selection = None
           /\ SelState(points, current_selection) = "Idle"

C5_CancelledClosedSelection ==
    lastOp \in CancelOps /\ prev_state = "Closed" /\ points = << >>
        /\ current_selection = None

\* C6: in every reachable state every point of the point list and of the
\* committed selection lies inside the current working matrix.
C6_PointsInBounds ==
    data # NoneArray => AllInBounds(points) /\ AllInBounds(current_selection)

\* C7: a fill on a closed selection whose mask has no true pixel signals
\* EmptySelection and changes no pixel.
C7_EmptyMaskSignalsAndKeepsImage ==
    [][(lastOp' = "fill_region" /\ mask' # None /\ AllFalse(mask')) =>
          /\ signal' = "EmptySelection"
          /\ data' = data
          /\ original_data' = original_data]_vars

C7_EmptyMaskFill ==
    lastOp = "fill_region" /\ mask # None /\ AllFalse(mask)
        /\ signal = "EmptySelection" /\ ~changed

\* C8: after a confirmed fill the selection is back in Idle, and a Fill
\* request that follows immediately changes no pixel.
C8_FillClearsSelection ==
    [][Filled =>
          /\ points = << >>
          /\ current_selection = None
          /\ lastOp' = "fill_region" => (data' = data /\ signal' = "NoSelection")]_vars

C8_FilledAndIdle ==
    Filled /\ changed /\ points = << >> /\ current_selection = None

\* C9: no operation other than a load changes a value of the original
\* snapshot.
C9_OriginalNeverMutated ==
    [][lastOp' \notin LoadOps => original_data' = original_data]_vars

C9_FillLeftOriginal ==
    Filled /\ changed /\ prev_state = "Closed" /\ original_data = loaded
        /\ data # original_data

\* C10: no operation other than a load changes the shape of the working
\* matrix, and every mask computed has that shape.
C10_ShapeFixed ==
    [][/\ lastOp' \notin LoadOps => Shape(data') = Shape(data)
       /\ mask' # None => MaskShape(mask') = Shape(data')]_vars

C10_MaskOfNonSquare ==
    lastOp = "fill_region" /\ mask # None /\ Rows(data) # Cols(data)
        /\ MaskShape(mask) = Shape(data)

\* C11: every operation that fails to perform its mutation (a close with
\* fewer than 3 points, a fill with no selection or with an empty mask, a
\* reset with no original, a load that raises) shows an error or a warning
\* and leaves the session running.
C11_FailuresAreSignalled ==
    [][(\/ lastOp' \in {"on_key_press_enter", "close_region"} /\ Len(points) < MinPoints
        \/ lastOp' = "fill_region" /\ (current_selection = None \/ AllFalse(mask'))
        \/ lastOp' \in ResetOps /\ original_data = NoneArray
        \/ lastOp' = "load_new_csv" /\ partial_load')
          => signal' # "none" /\ phase' = "running"]_vars

(***************************************************************************)
(* Properties of the processor.                                            *)
(***************************************************************************)
\* A file of DefaultSkiprows header lines followed by rows of numbers, all of
\* one length.
IsNumericExport(file) ==
    /\ Len(file) > DefaultSkiprows
    /\ \A r \in (DefaultSkiprows + 1)..Len(file) :
        /\ Len(file[r]) = Len(file[DefaultSkiprows + 1])
        /\ \A c \in 1..Len(file[r]) : file[r][c].k \in {"int", "float"}

ExportShape(file) ==
    << Len(file) - DefaultSkiprows, Len(file[DefaultSkiprows + 1]) >>

Called(method) == stage'[1] = method

\* C12: load_csv(path, skiprows=10), the other arguments at their defaults
\* (drop_first_column=True), on a file of 10 header lines followed by R rows
\* of C numbers leaves data of shape exactly (R, C).
C12_LoadKeepsEveryColumn ==
    [][(/\ Called("load_csv")
        /\ stage'[3] = DefaultSkiprows
        /\ stage'[4] = TRUE
        /\ IsNumericExport(SourceAt(stage'[2])))
          => FrameShape(processor'.data) = ExportShape(SourceAt(stage'[2]))]_vars

\* The cells of rows [r0, r1) and columns [c0, c1) of a frame, in their order.
Block(frame, r0, r1, c0, c1) ==
    [rows |-> [r \in 1..(r1 - r0) |-> [c \in 1..(c1 - c0) |->
                  frame.rows[r0 + r][c0 + c]]],
     ncols |-> c1 - c0]

\* C13: on loaded data of R rows and C columns, crop with
\* 0 <= start_row <= end_row <= R and 0 <= start_col <= end_col <= C leaves
\* exactly the cells of rows [start_row, end_row) and columns
\* [start_col, end_col) in their order; an end of None is the end of the data.
C13_CropKeepsTheBlock ==
    [][(Called("crop") /\ processor.data # NoFrame) =>
          LET start_row == stage'[2]
              end_row == OrElse(stage'[3], NRows(processor.data))
              start_col == stage'[4]
              end_col == OrElse(stage'[5], processor.data.ncols)
          IN  (/\ 0 <= start_row /\ start_row <= end_row
               /\ end_row <= NRows(processor.data)
               /\ 0 <= start_col /\ start_col <= end_col
               /\ end_col <= processor.data.ncols)
                 => processor'.data =
                        Block(processor.data, start_row, end_row, start_col, end_col)]_vars

\* A crop to the one cell of row 0 and column 1 of a loaded export.
C13_CroppedToOneCell ==
    /\ stage = << "crop", 0, << 1 >>, 1, << 2 >> >>
    /\ processor.processing_history = << "Loaded", "Cropped" >>
    /\ processor.file_path = "thermal33.csv"
    /\ processor.data \in {[rows |-> << << DecLit(2).v >> >>, ncols |-> 1],
                           [rows |-> << << DecLit(3).v >> >>, ncols |-> 1]}

\* C14: after downsample(output_size=(H, W)) on any loaded data, cropped
\* first or not, the data has shape exactly (H, W).
C14_DownsampleAlwaysReshapes ==
    [][(Called("downsample") /\ processor.data # NoFrame)
          => FrameShape(processor'.data) = stage'[2]]_vars

\* C14 as amended: on loaded data that holds numbers only and has at least
\* one row and one column the data has shape exactly (H, W) afterwards; on
\* other loaded data downsample leaves the data as it was.
C14_DownsampleReshapesNumbers ==
    [][(Called("downsample") /\ processor.data # NoFrame) =>
          IF \/ \E r \in 1..NRows(processor.data) :
                    TextCell \in {processor.data.rows[r][c] :
                                      c \in 1..processor.data.ncols}
             \/ NRows(processor.data) = 0
             \/ processor.data.ncols = 0
          THEN processor'.data = processor.data
          ELSE FrameShape(processor'.data) = stage'[2]]_vars

\* A loaded export, cropped and then downsampled to one row of MaxOut cells.
C14_CroppedThenDownsampled ==
    /\ stage = << "downsample", << 1, MaxOut >> >>
    /\ processor.processing_history = << "Loaded", "Cropped", "Downsampled" >>
    /\ FrameShape(processor.data) = << 1, MaxOut >>

Chained == {"load_csv", "crop", "downsample"}

\* C15: load_csv, crop and downsample return the processor they were called
\* on in every outcome, and save with an explicit output path on loaded data
\* returns that path, the file being there afterwards.
C15_ChainAndSaveReturn ==
    [][/\ (\E method \in Chained : Called(method)) => returned' = "self"
       /\ (Called("save") /\ stage'[2] # None /\ processor.data # NoFrame)
             => /\ returned' = stage'[2][1]
                /\ stage'[2][1] \in DOMAIN outputs'
                /\ outputs'[stage'[2][1]].exists]_vars

\* C15 as amended: the same, for an output path that can be written; when
\* the write raises, save returns None and writes no file.
C15_ChainAndWritableSaveReturn ==
    [][/\ (\E method \in Chained : Called(method)) => returned' = "self"
       /\ (Called("save") /\ stage'[2] # None /\ processor.data # NoFrame)
             => IF stage'[2][1] \notin Unwritable
                THEN /\ returned' = stage'[2][1]
                     /\ outputs'[stage'[2][1]].exists
                ELSE /\ returned' = "None"
                     /\ \A path \in OutPaths : ~outputs'[path].exists]_vars

\* The chain load_csv -> crop -> downsample -> save, run on the one instance.
C15_ChainRan ==
    /\ processor.processing_history = << "Loaded", "Cropped", "Downsampled", "Saved to" >>
    /\ stage = << "save", << "out.csv" >>, None >>
    /\ returned = "out.csv"
    /\ outputs["out.csv"].exists

(***************************************************************************)
(* Properties of the mask and the round trip.                              *)
(***************************************************************************)
\* The image of zeros with the n x n block at row r0, column r0 set to value.
BlockImage(r0, c0, n, value) ==
    [r \in 1..5 |-> [c \in 1..5 |->
        IF r0 <= r - 1 /\ r - 1 < r0 + n /\ c0 <= c - 1 /\ c - 1 < c0 + n
        THEN value ELSE 0]]

\* C16: on the loaded 5x5 image of zeros, the points (1,1), (3,1), (3,3),
\* (1,3) added in that order, closed and filled with 99.0 leave the 3x3 block
\* of the square, or a 2x2 block of it, at 99.0 and every other pixel at 0.0;
\* the pixels filled are as many as the true pixels of the mask.
C16_SquareFillsABlock ==
    [][(/\ data = read_csv(Zero5File)
        /\ current_selection = Square
        /\ lastOp' = "fill_region"
        /\ fill_value' = SquareFill)
          => /\ \/ data'.cells = BlockImage(1, 1, 3, SquareFill)
                \/ \E r0, c0 \in {1, 2} : data'.cells = BlockImage(r0, c0, 2, SquareFill)
             /\ Cardinality(MaskTrue(mask')) =
                    Cardinality({rc \in (1..5) \X (1..5) :
                                    data'.cells[rc[1]][rc[2]] = SquareFill})]_vars

\* Points on one straight line: a polygon of no area.
Collinear(pts) ==
    \A i, j, k \in 1..Len(pts) :
        (pts[j][1] - pts[i][1]) * (pts[k][2] - pts[i][2])
            = (pts[k][1] - pts[i][1]) * (pts[j][2] - pts[i][2])

\* C17: for a closed selection of 3 or more collinear points the mask is all
\* false and nothing is raised, so a fill on it changes no pixel.
C17_CollinearSelectionFillsNothing ==
    [][(/\ current_selection # None
        /\ Collinear(current_selection)
        /\ lastOp' = "fill_region")
          => /\ AllFalse(mask')
             /\ signal' # "FillError"
             /\ data' = data]_vars

IsPrefix(s, t) == Len(s) <= Len(t) /\ SubSeq(t, 1, Len(s)) = s

\* The stage called in this step did what it is for.
Succeeded ==
    \/ Called("load_csv") /\ ~ReadRaises(SourceAt(stage'[2]), stage'[3])
    \/ Called("crop") /\ processor.data # NoFrame
    \/ Called("downsample") /\ processor.data # NoFrame
           /\ ~HasText(processor.data)
           /\ NRows(processor.data) > 0 /\ processor.data.ncols > 0
    \/ Called("visualize") /\ processor.data # NoFrame
           /\ ~HasText(processor.data) /\ stage'[2]
    \/ Called("save") /\ returned' # "None"

\* C18: processing_history is append-only: every method leaves the entries
\* it finds unchanged and in order, a stage that succeeds appends exactly one
\* entry, a stage that fails or finds no data appends none.
C18_HistoryAppendOnly ==
    [][/\ IsPrefix(processor.processing_history, processor'.processing_history)
       /\ ~Called("batch_process") =>
             Len(processor'.processing_history) =
                 Len(processor.processing_history) + (IF Succeeded THEN 1 ELSE 0)
       /\ Called("batch_process") =>
             Len(processor'.processing_history) - Len(processor.processing_history)
                 \in Len(processed_files')..(4 * Len(stage'[2]))]_vars

\* A downsample that failed on a frame of strings and appended nothing.
C18_FailedStageAppendedNothing ==
    /\ stage[1] = "downsample"
    /\ HasText(processor.data)
    /\ processor.processing_history = << "Loaded" >>

\* C19: saving the working matrix and loading the saved file again gives a
\* matrix of the same shape with every element equal: save adds no header
\* row and no index column, load drops no row and no column.
C19_SaveThenLoadIsTheMatrix ==
    [][/\ (lastOp' = "save_csv" /\ written' # NoFile)
             => /\ Len(written') = Rows(data)
                /\ \A r \in 1..Len(written') : Len(written'[r]) = Cols(data)
       /\ (lastOp' = "load_new_csv" /\ written # NoFile)
             => /\ Shape(data') = << Len(written), Len(written[1]) >>
                /\ Shape(data') = Shape(data)
                /\ data'.cells = data.cells]_vars

\* A matrix with a filled pixel, saved and loaded again.
C19_FilledSavedReloaded ==
    /\ lastOp = "load_new_csv"
    /\ signal = "none"
    /\ loaded = data
    /\ \E r \in 1..Rows(data) : \E c \in 1..Cols(data) :
            data.cells[r][c] = CastTo(data.dtype, 2 * Scale + 1)

\* What batch_process writes for a source file when it starts on a processor
\* that holds nothing: the output derived from that file alone.
OutputFor(file_path, crop_params, downsample_params, drop_first_column) ==
    BatchStep([processor |-> NewProcessor, outputs |-> NoOutputs,
               processed_files |-> << >>],
              file_path, crop_params, downsample_params, drop_first_column)
        .outputs[BatchName(file_path, downsample_params)]

RECURSIVE NamesOfLoaded(_, _)
NamesOfLoaded(csv_files, downsample_params) ==
    IF csv_files = << >> THEN << >>
    ELSE (IF ReadRaises(SourceAt(Head(csv_files)), DefaultSkiprows) THEN << >>
          ELSE << BatchName(Head(csv_files), downsample_params) >>)
             \o NamesOfLoaded(Tail(csv_files), downsample_params)

\* C20: in batch_process every output written for a source file holds data
\* derived from that file's own contents only, the returned list holds
\* exactly the outputs of the files loaded and saved, and a file whose load
\* fails gets no output under its name.
C20_BatchOutputsComeFromTheirSource ==
    [][Called("batch_process") =>
          /\ \A i \in 1..Len(stage'[2]) :
                LET file_path == stage'[2][i]
                    written_for == outputs'[BatchName(file_path, stage'[4])]
                IN  /\ written_for.exists =>
                          written_for = OutputFor(file_path, stage'[3], stage'[4], stage'[5])
                    /\ ReadRaises(SourceAt(file_path), DefaultSkiprows)
                          => ~written_for.exists
          /\ processed_files' = NamesOfLoaded(stage'[2], stage'[4])]_vars

\* C21: whenever load_csv returns False (the dialog cancelled, no file, or a
\* failure at any step of the load) the working matrix, the original
\* snapshot and the selection are what they were before the call.  A load
\* returns False silently when the dialog is cancelled, which changes
\* nothing, and with the error box otherwise.
C21_FailedLoadChangesNothing ==
    [][(lastOp' \in LoadOps /\ signal' = "LoadError")
          => /\ data' = data
             /\ original_data' = original_data
             /\ points' = points
             /\ polygon' = polygon
             /\ current_selection' = current_selection]_vars

====
